---- MODULE Spec2Model ----
(***************************************************************************)
(* The IS-IS link-state database (LSDB) of bio-rd:                         *)
(* protocols/isis/server/lsdb.go.  The store maps an LSPID to an entry     *)
(* (an LSPDU plus the SRM and SSN flag sets); receive handlers, the aging  *)
(* routine and the transmit routines act on it under the store's lock.     *)
(***************************************************************************)
EXTENDS Integers, Sequences, FiniteSets, TLC

\* ----------------------------------------------------------------- bounds

\* Sequence numbers of received PDUs range over 1..MaxSeq.
MaxSeq == 2

\* Remaining lifetimes of received PDUs range over 0..MaxLifetime.
MaxLifetime == 2

\* The packing runs: the largest number of entries of the store and the
\* span of MTUs above the smallest one.
MaxPackEntries == 3

MaxMTUExtra == 40

\* LSPDU.RemainingLifetime is a uint16: its arithmetic is modulo 2^16.
Uint16 == 2^16

\* The serialized sizes, in octets: an LSPEntry, the PSNP header, and the
\* CSNP header, which adds the start and the end LSPID (8 + 8).
LSPEntryLen == 16

PSNPMinLen == 17

CSNPMinLen == PSNPMinLen + 8 + 8

\* The smallest MTU the interfaces have: a CSNP holds one LSPEntry under
\* it and a PSNP two.
MinMTU == CSNPMinLen + LSPEntryLen

\* The range start and end of a CSNP that describes an empty database.
FirstLSPID == 0

LastLSPID == 255

\* ------------------------------------------------------------ environment

\* The interfaces (*netIfa); "P" is configured passive (ifa.cfg.Passive).
Ifas == {"A", "B", "P"}

Passive(ifa) == ifa = "P"

\* len(ifa.neighborManagerL2.getNeighborsUp()): "A" has an up L2 neighbor.
getNeighborsUp(ifa) == IF ifa = "A" THEN 1 ELSE 0

\* The LSPIDs, ordered as the CSNP range check orders them.
LSPIDs == {1, 2}

\* The deployments the model is run in: the interfaces of the server's
\* interface manager, and the LSPIDs, sequence numbers and remaining
\* lifetimes of the PDUs the neighbors send, and the ranges of their
\* CSNPs.  The first has one LSP and three interfaces, the second two LSPs
\* and one interface.
Topologies ==
  { [ifas |-> {"A", "B", "P"}, lspids |-> {1},
     seqs |-> 1..MaxSeq, lifetimes |-> 0..MaxLifetime,
     ranges |-> {<<1, 1>>, <<2, 2>>}, mtu |-> MinMTU],
    [ifas |-> {"A"}, lspids |-> {1, 2},
     seqs |-> {1, 2}, lifetimes |-> {1, 2},
     ranges |-> {<<1, 1>>, <<1, 2>>, <<2, 2>>}, mtu |-> MinMTU] }

VARIABLES
  netIfas,     \* l.srv.netIfaManager: the interfaces it returns
  mtu,         \* ifa.ethHandler.GetMTU() of each interface
  network,     \* what the neighbors send: LSPIDs, sequence numbers, lifetimes
  lsps,        \* l.lsps: LSPID -> lsdbEntry
  sentLSPDU,   \* ifa.sendLSPDU calls of the last LSPDU transmit tick
  sentPSNP,    \* ifa.sendPSNP calls of the last PSNP transmit tick
  sentCSNP,    \* ifa.sendCSNP calls of the last CSNP transmit tick
  last,        \* the operation that ran last, its interface and its branch
  done,        \* l.done is closed
  wg,          \* the counter of l.wg
  lspsMu,      \* l.lspsMu: the goroutine holding the write lock, the readers
  pc           \* where each goroutine is

storeVars == <<netIfas, mtu, network, lsps, sentLSPDU, sentPSNP, sentCSNP, last>>

runVars == <<done, wg, lspsMu, pc>>

vars == <<netIfas, mtu, network, lsps, sentLSPDU, sentPSNP, sentCSNP, last,
          done, wg, lspsMu, pc>>

\* ------------------------------------------------------------------ PDUs

\* The checksum of an LSP is a function of its content; the model keeps one
\* content per LSPID and sequence number.
Fletcher(id, seq) == id * 16 + seq

\* packet.LSPDU: HasTLVs is FALSE for the payload-less LSPDU of an empty
\* entry.
LSPDU(id, seq, lifetime) ==
  [LSPID |-> id, SequenceNumber |-> seq, RemainingLifetime |-> lifetime,
   Checksum |-> Fletcher(id, seq), HasTLVs |-> TRUE]

\* packet.LSPEntry
LSPEntry(id, seq, lifetime) ==
  [LSPID |-> id, SequenceNumber |-> seq, RemainingLifetime |-> lifetime,
   LSPChecksum |-> Fletcher(id, seq)]

\* LSPDU.ToLSPEntry
ToLSPEntry(lspdu) ==
  [LSPID |-> lspdu.LSPID, SequenceNumber |-> lspdu.SequenceNumber,
   RemainingLifetime |-> lspdu.RemainingLifetime,
   LSPChecksum |-> lspdu.Checksum]

\* The LSPDUs, LSPEntries, CSNPs and PSNPs that can be received.
RxLSPDUs ==
  { LSPDU(id, seq, lt) :
      id \in network.lspids, seq \in network.seqs, lt \in network.lifetimes }

\* The elements of a set of LSPIDs in ascending order: SNPs list their
\* LSPEntries in ascending LSPID order, one entry per LSPID.
RECURSIVE Ascending(_)
Ascending(S) ==
  IF S = {} THEN <<>>
  ELSE LET m == CHOOSE x \in S : \A y \in S : y <= x
       IN  Append(Ascending(S \ {m}), m)

\* The LSPEntry lists over the LSPIDs in ids with the given sequence
\* numbers and lifetimes.
EntryLists(ids, seqs, lifetimes) ==
  UNION { { [k \in 1..Cardinality(S) |->
               LSPEntry(Ascending(S)[k], f[Ascending(S)[k]][1], f[Ascending(S)[k]][2])] :
            f \in [S -> seqs \X lifetimes] } :
          S \in SUBSET ids }

\* packet.CSNP: the range [StartLSPID, EndLSPID] and the LSPEntries.
RxCSNPs ==
  { [StartLSPID |-> r[1], EndLSPID |-> r[2], LSPEntries |-> es] :
      r \in network.ranges,
      es \in EntryLists(network.lspids, network.seqs, network.lifetimes) }

\* packet.PSNP: processPSNP reads the LSPID of each entry only.
RxPSNPs ==
  { [LSPEntries |-> es] : es \in EntryLists(LSPIDs, {1}, {MaxLifetime}) }

\* CSNP.RangeContainsLSPID
RangeContainsLSPID(csnp, lspID) ==
  csnp.StartLSPID <= lspID /\ lspID <= csnp.EndLSPID

\* CSNP.ContainsLSPEntry
ContainsLSPEntry(csnp, lspID) ==
  \E k \in 1..Len(csnp.LSPEntries) : csnp.LSPEntries[k].LSPID = lspID

\* The orders in which a loop over a Go map with the keys S may visit them.
Orders(S) ==
  { o \in [1..Cardinality(S) -> S] :
      \A i \in 1..Cardinality(S), j \in 1..Cardinality(S) : o[i] = o[j] => i = j }

\* The largest number of LSPEntries a PDU with a header of minLen octets
\* holds under the MTU.
EntriesPerPDU(maxPDULen, minLen) == (maxPDULen - minLen) \div LSPEntryLen

NumPDUs(n, perPDU) == (n + perPDU - 1) \div perPDU

\* The k-th fragment of the entries, perPDU entries to a fragment, in the
\* order of the input.
Fragment(entries, perPDU, k) ==
  SubSeq(entries, (k - 1) * perPDU + 1,
         IF k * perPDU <= Len(entries) THEN k * perPDU ELSE Len(entries))

EntryIDs(entries) == { entries[k].LSPID : k \in 1..Len(entries) }

\* packet.NewPSNPs: no PSNP for an empty list.
NewPSNPs(entries, maxPDULen) ==
  LET per == EntriesPerPDU(maxPDULen, PSNPMinLen)
  IN  [k \in 1..NumPDUs(Len(entries), per) |->
         [LSPEntries |-> Fragment(entries, per, k)]]

\* packet.NewCSNPs: one CSNP over the whole range for an empty list; the
\* range of a fragment is from its lowest to its highest LSPID.
NewCSNPs(entries, maxPDULen) ==
  LET per == EntriesPerPDU(maxPDULen, CSNPMinLen)
  IN  IF Len(entries) = 0
      THEN << [StartLSPID |-> FirstLSPID, EndLSPID |-> LastLSPID,
               LSPEntries |-> <<>>] >>
      ELSE [k \in 1..NumPDUs(Len(entries), per) |->
              LET f == Fragment(entries, per, k)
              IN  [StartLSPID |-> CHOOSE x \in EntryIDs(f) : \A y \in EntryIDs(f) : x <= y,
                   EndLSPID |-> CHOOSE x \in EntryIDs(f) : \A y \in EntryIDs(f) : y <= x,
                   LSPEntries |-> f]]

\* The serialized sizes of a PSNP and of a CSNP.
PSNPLen(psnp) == PSNPMinLen + LSPEntryLen * Len(psnp.LSPEntries)

CSNPLen(csnp) == CSNPMinLen + LSPEntryLen * Len(csnp.LSPEntries)

\* ------------------------------------------------------- interface manager

getAllInterfaces == netIfas

getAllInterfacesExcept(ifa) == netIfas \ {ifa}

\* ------------------------------------------------------------- lsdbEntry

newLSDBEntry(lspdu) ==
  [lspdu |-> lspdu, srmFlags |-> {}, ssnFlags |-> {}]

newEmptyLSDBEntry(lspEntry) ==
  [lspdu |-> [LSPID |-> lspEntry.LSPID,
              SequenceNumber |-> lspEntry.SequenceNumber,
              RemainingLifetime |-> lspEntry.RemainingLifetime,
              Checksum |-> lspEntry.LSPChecksum,
              HasTLVs |-> FALSE],
   srmFlags |-> {}, ssnFlags |-> {}]

setSRM(e, ifa) == [e EXCEPT !.srmFlags = @ \cup {ifa}]

clearSRMFlag(e, ifa) == [e EXCEPT !.srmFlags = @ \ {ifa}]

setSSN(e, ifa) == [e EXCEPT !.ssnFlags = @ \cup {ifa}]

clearSSNFlag(e, ifa) == [e EXCEPT !.ssnFlags = @ \ {ifa}]

clearAllSSNFlags(e) == [e EXCEPT !.ssnFlags = {}]

getInterfacesSRMSet(e) == e.srmFlags

getSSN(e, ifa) == ifa \in e.ssnFlags

\* The comparators of an entry against a received LSPEntry: the sequence
\* number decides, the remaining lifetime breaks a tie.
sameAsInLSPEntry(e, lspEntry) ==
  /\ e.lspdu.SequenceNumber = lspEntry.SequenceNumber
  /\ e.lspdu.RemainingLifetime = lspEntry.RemainingLifetime

newerInDatabase(e, lspEntry) ==
  \/ e.lspdu.SequenceNumber > lspEntry.SequenceNumber
  \/ /\ e.lspdu.SequenceNumber = lspEntry.SequenceNumber
     /\ e.lspdu.RemainingLifetime > lspEntry.RemainingLifetime

olderInDatabase(e, lspEntry) ==
  \/ e.lspdu.SequenceNumber < lspEntry.SequenceNumber
  \/ /\ e.lspdu.SequenceNumber = lspEntry.SequenceNumber
     /\ e.lspdu.RemainingLifetime < lspEntry.RemainingLifetime

processSameLSPDU(e, ifa) == setSSN(clearSRMFlag(e, ifa), ifa)

newerLocalLSPDU(e, ifa) == clearSSNFlag(setSRM(e, ifa), ifa)

\* --------------------------------------------------------------- the store

\* l.lsps[id] = e
Put(l, id, e) == [x \in DOMAIN l \cup {id} |-> IF x = id THEN e ELSE l[x]]

exists(l, pkt) == pkt.LSPID \in DOMAIN l

isNewer(l, pkt) == pkt.SequenceNumber > l[pkt.LSPID].lspdu.SequenceNumber

\* Aging that deletes at lifetime 0 only: an entry at lifetime 1 is
\* decremented to 0 and stays.
decrementDeletesBelowOne(l) ==
  LET keep == { id \in DOMAIN l : ~(l[id].lspdu.RemainingLifetime < 1) }
  IN  [id \in keep |->
         [l[id] EXCEPT !.lspdu.RemainingLifetime = (@ + Uint16 - 1) % Uint16]]

\* Aging that deletes at lifetime 1 only: an entry at lifetime 0 is
\* decremented and wraps around.
decrementDeletesAtOne(l) ==
  LET keep == { id \in DOMAIN l : ~(l[id].lspdu.RemainingLifetime = 1) }
  IN  [id \in keep |->
         [l[id] EXCEPT !.lspdu.RemainingLifetime = (@ + Uint16 - 1) % Uint16]]

\* decrementRemainingLifetimes: an entry at lifetime <= 1 is deleted, any
\* other entry loses one second (uint16 arithmetic).
decrementRemainingLifetimes(l) ==
  LET keep == { id \in DOMAIN l : ~(l[id].lspdu.RemainingLifetime <= 1) }
  IN  [id \in keep |->
         [l[id] EXCEPT !.lspdu.RemainingLifetime =
            (@ + Uint16 - 1) % Uint16]]

setSRMAllLSPs(l, ifa) == [id \in DOMAIN l |-> setSRM(l[id], ifa)]

\* Installing that floods on every interface, the receiving one included.
processNewerFloodsAll(l, ifa, lspdu) ==
  LET fresh == newLSDBEntry(lspdu)
      flooded == [fresh EXCEPT !.srmFlags = @ \cup getAllInterfaces]
  IN  Put(l, lspdu.LSPID, setSSN(flooded, ifa))

processNewerLSPDU(l, ifa, lspdu) ==
  LET fresh == newLSDBEntry(lspdu)
      flooded == [fresh EXCEPT !.srmFlags = @ \cup getAllInterfacesExcept(ifa)]
  IN  Put(l, lspdu.LSPID, setSSN(clearSRMFlag(flooded, ifa), ifa))

\* Branching that takes an older LSPDU for one of the same sequence number.
lspCaseOlderAsSame(l, lspdu) ==
  IF ~exists(l, lspdu) \/ lspdu.SequenceNumber > l[lspdu.LSPID].lspdu.SequenceNumber
  THEN "newer"
  ELSE IF lspdu.SequenceNumber <= l[lspdu.LSPID].lspdu.SequenceNumber
       THEN "same"
       ELSE "older"

\* Branching that installs an LSPDU of the same sequence number.
lspCaseSameAsNewer(l, lspdu) ==
  IF ~exists(l, lspdu) \/ lspdu.SequenceNumber >= l[lspdu.LSPID].lspdu.SequenceNumber
  THEN "newer"
  ELSE "older"

\* Branching that installs every LSPDU whose sequence number differs.
lspCaseDifferentAsNewer(l, lspdu) ==
  IF ~exists(l, lspdu) \/ lspdu.SequenceNumber # l[lspdu.LSPID].lspdu.SequenceNumber
  THEN "newer"
  ELSE "same"

\* The branch processLSP takes.
lspCase(l, lspdu) ==
  IF ~exists(l, lspdu) \/ lspdu.SequenceNumber > l[lspdu.LSPID].lspdu.SequenceNumber
  THEN "newer"
  ELSE IF lspdu.SequenceNumber = l[lspdu.LSPID].lspdu.SequenceNumber
       THEN "same"
       ELSE "older"

processLSP(l, ifa, lspdu) ==
  CASE lspCase(l, lspdu) = "newer" -> processNewerLSPDU(l, ifa, lspdu)
    [] lspCase(l, lspdu) = "same" ->
         [l EXCEPT ![lspdu.LSPID] = processSameLSPDU(@, ifa)]
    [] OTHER ->
         [l EXCEPT ![lspdu.LSPID] = newerLocalLSPDU(@, ifa)]

\* An unknown LSPEntry that is requested and flagged for flooding as well.
processUnknownRequestsAndFloods(l, lspEntry, from) ==
  Put(l, lspEntry.LSPID, setSRM(setSSN(newEmptyLSDBEntry(lspEntry), from), from))

\* An unknown LSPEntry that is flagged for flooding instead of requested.
processUnknownSetsSRM(l, lspEntry, from) ==
  Put(l, lspEntry.LSPID, setSRM(newEmptyLSDBEntry(lspEntry), from))

processCSNPLSPEntryUnknown(l, lspEntry, from) ==
  Put(l, lspEntry.LSPID, setSSN(newEmptyLSDBEntry(lspEntry), from))

\* A known LSPEntry handled without the same-instance branch.
processEntryWithoutSame(l, lspEntry, from) ==
  IF lspEntry.LSPID \notin DOMAIN l
  THEN processCSNPLSPEntryUnknown(l, lspEntry, from)
  ELSE LET e == l[lspEntry.LSPID]
       IN  IF newerInDatabase(e, lspEntry)
           THEN [l EXCEPT ![lspEntry.LSPID] = setSRM(clearSSNFlag(e, from), from)]
           ELSE IF olderInDatabase(e, lspEntry)
           THEN [l EXCEPT ![lspEntry.LSPID] = setSSN(clearSRMFlag(e, from), from)]
           ELSE l

\* A known LSPEntry handled without the newer-in-database branch.
processEntryWithoutNewer(l, lspEntry, from) ==
  IF lspEntry.LSPID \notin DOMAIN l
  THEN processCSNPLSPEntryUnknown(l, lspEntry, from)
  ELSE LET e == l[lspEntry.LSPID]
       IN  IF sameAsInLSPEntry(e, lspEntry)
           THEN [l EXCEPT ![lspEntry.LSPID] = clearSRMFlag(e, from)]
           ELSE IF olderInDatabase(e, lspEntry)
           THEN [l EXCEPT ![lspEntry.LSPID] = setSSN(clearSRMFlag(e, from), from)]
           ELSE l

processCSNPLSPEntry(l, lspEntry, from) ==
  IF lspEntry.LSPID \notin DOMAIN l
  THEN processCSNPLSPEntryUnknown(l, lspEntry, from)
  ELSE LET e == l[lspEntry.LSPID]
       IN  IF sameAsInLSPEntry(e, lspEntry)
           THEN [l EXCEPT ![lspEntry.LSPID] = clearSRMFlag(e, from)]
           ELSE IF newerInDatabase(e, lspEntry)
           THEN [l EXCEPT ![lspEntry.LSPID] = setSRM(clearSSNFlag(e, from), from)]
           ELSE IF olderInDatabase(e, lspEntry)
           THEN [l EXCEPT ![lspEntry.LSPID] = setSSN(clearSRMFlag(e, from), from)]
           ELSE l

\* The first loop of processCSNP over the first k entries of the CSNP.
RECURSIVE processCSNPEntries(_, _, _, _)
processCSNPEntries(l, entries, from, k) ==
  IF k = 0 THEN l
  ELSE processCSNPLSPEntry(processCSNPEntries(l, entries, from, k - 1),
                           entries[k], from)

\* The second loop of processCSNP without the test of the CSNP's range.
processGapsIgnoringRange(l, csnp, from) ==
  [lspID \in DOMAIN l |->
     IF l[lspID].lspdu.RemainingLifetime <= 0 \/ l[lspID].lspdu.SequenceNumber <= 0
     THEN l[lspID]
     ELSE IF ~ContainsLSPEntry(csnp, lspID)
     THEN setSRM(l[lspID], from)
     ELSE l[lspID]]

\* The second loop of processCSNP: entries in the range the neighbor did
\* not describe get SRM on the receiving interface.
processCSNPGaps(l, csnp, from) ==
  [lspID \in DOMAIN l |->
     IF l[lspID].lspdu.RemainingLifetime <= 0 \/ l[lspID].lspdu.SequenceNumber <= 0
     THEN l[lspID]
     ELSE IF ~RangeContainsLSPID(csnp, lspID)
     THEN l[lspID]
     ELSE IF ~ContainsLSPEntry(csnp, lspID)
     THEN setSRM(l[lspID], from)
     ELSE l[lspID]]

processCSNP(l, from, csnp) ==
  processCSNPGaps(
    processCSNPEntries(l, csnp.LSPEntries, from, Len(csnp.LSPEntries)),
    csnp, from)

RECURSIVE processPSNPEntries(_, _, _, _)
processPSNPEntries(l, entries, from, k) ==
  IF k = 0 THEN l
  ELSE LET m == processPSNPEntries(l, entries, from, k - 1)
           id == entries[k].LSPID
       IN  IF id \notin DOMAIN m THEN m
           ELSE [m EXCEPT ![id] = clearSRMFlag(@, from)]

\* A PSNP that clears SRM of the listed entries on every interface.
processPSNPClearsEverywhere(l, from, psnp) ==
  [id \in DOMAIN l |->
     IF id \in EntryIDs(psnp.LSPEntries)
     THEN [l[id] EXCEPT !.srmFlags = {}]
     ELSE l[id]]

\* A PSNP handled as an acknowledgement of every entry of the store.
processPSNPAcksAll(l, from, psnp) ==
  IF Len(psnp.LSPEntries) = 0 THEN l
  ELSE [id \in DOMAIN l |-> clearSRMFlag(l[id], from)]

processPSNP(l, from, psnp) ==
  processPSNPEntries(l, psnp.LSPEntries, from, Len(psnp.LSPEntries))

\* Transmission that leaves the interface loop of an entry at a passive
\* interface: an entry flagged on a passive interface is sent nowhere.
sendLSPDUsStopAtPassive(l) ==
  UNION { { [ifa |-> ifa, lspdu |-> l[id].lspdu] :
              ifa \in { i \in getInterfacesSRMSet(l[id]) :
                          \A j \in getInterfacesSRMSet(l[id]) : ~Passive(j) } } :
          id \in DOMAIN l }

\* Transmission that does not skip passive interfaces.
sendLSPDUsOnPassive(l) ==
  UNION { { [ifa |-> ifa, lspdu |-> l[id].lspdu] :
              ifa \in getInterfacesSRMSet(l[id]) } :
          id \in DOMAIN l }

\* sendLSPDUs: the ifa.sendLSPDU calls of one tick.
sendLSPDUs(l) ==
  UNION { { [ifa |-> ifa, lspdu |-> l[id].lspdu] :
              ifa \in { i \in getInterfacesSRMSet(l[id]) : ~Passive(i) } } :
          id \in DOMAIN l }

\* A collection that does not test the SSN flag.
getLSPWithoutSSNTest(l, ifa, order) ==
  [k \in 1..Len(order) |-> ToLSPEntry(l[order[k]].lspdu)]

\* _getLSPWithSSNSet: the loop visits the map in the given order.
getLSPWithSSNSet(l, ifa, order) ==
  LET flagged == SelectSeq(order, LAMBDA id : getSSN(l[id], ifa))
  IN  [k \in 1..Len(flagged) |-> ToLSPEntry(l[flagged[k]].lspdu)]

clearAllSSNFlagsOfStore(l) == [id \in DOMAIN l |-> clearAllSSNFlags(l[id])]

SeqRange(q) == { q[k] : k \in 1..Len(q) }

\* A PSNP tick that sends on the interfaces with an up neighbor only.
sendPSNPssToNeighborsUp(l, orders) ==
  UNION { { [ifa |-> ifa, psnp |-> p] :
              p \in SeqRange(NewPSNPs(getLSPWithSSNSet(l, ifa, orders[ifa]), mtu[ifa])) } :
          ifa \in { i \in getAllInterfaces : ~Passive(i) /\ getNeighborsUp(i) >= 1 } }

\* sendPSNPss: the PSNPs handed to ifa.sendPSNP in one tick; orders gives
\* the order of the map loop for each interface.
sendPSNPss(l, orders) ==
  UNION { { [ifa |-> ifa, psnp |-> p] :
              p \in SeqRange(NewPSNPs(getLSPWithSSNSet(l, ifa, orders[ifa]), mtu[ifa])) } :
          ifa \in { i \in getAllInterfaces : ~Passive(i) } }

\* getLSPEntries: the summaries of all entries, in the order of the map loop.
getLSPEntries(l, order) ==
  [k \in 1..Len(order) |-> ToLSPEntry(l[order[k]].lspdu)]

\* CSNPs packed for an MTU one LSPEntry larger than that of the interface.
getCSNPsOversized(l, ifa, order) ==
  NewCSNPs(getLSPEntries(l, order), mtu[ifa] + LSPEntryLen)

getCSNPs(l, ifa, order) == NewCSNPs(getLSPEntries(l, order), mtu[ifa])

\* A CSNP tick that does not test for an up neighbor.
sendCSNPssToAll(l, orders) ==
  UNION { { [ifa |-> ifa, csnp |-> c] :
              c \in SeqRange(getCSNPs(l, ifa, orders[ifa])) } :
          ifa \in getAllInterfaces }

\* sendCSNPss: the CSNPs handed to ifa.sendCSNP in one tick.
sendCSNPss(l, orders) ==
  UNION { { [ifa |-> ifa, csnp |-> c] :
              c \in SeqRange(getCSNPs(l, ifa, orders[ifa])) } :
          ifa \in { i \in getAllInterfaces : ~(getNeighborsUp(i) < 1) } }

\* -------------------------------------------------------------- goroutines

\* The four routines start launches, in the order it launches them.
RoutineOrder ==
  << "decrementRemainingLifetimesRoutine", "sendLSPDUsRoutine",
     "sendPSNPsRoutine", "sendCSNPsRoutine" >>

Routines == SeqRange(RoutineOrder)

\* The goroutines: the routines, the caller of start and stop, the
\* receive path (processLSP, processCSNP, processPSNP) and the neighbor
\* manager that calls setSRMAllLSPs.
Goroutines == Routines \cup {"caller", "receive", "setSRMAllLSPs"}

\* The goroutines that take l.lspsMu, and the one that takes it for
\* reading (sendLSPDUs).
Lockers == Routines \cup {"receive"}

Readers == {"sendLSPDUsRoutine"}

NoGoroutine == "-"

\* Before start: no routine runs, the lock is free.
Stopped ==
  /\ done = FALSE
  /\ wg = 0
  /\ lspsMu = [writer |-> NoGoroutine, readers |-> {}]
  /\ pc = [g \in Goroutines |-> IF g = "caller" THEN "new" ELSE "idle"]

\* ----------------------------------------------------------------- actions

NoOp == [op |-> "init", ifa |-> "-", branch |-> "-"]

Init ==
  /\ \E t \in Topologies :
       /\ netIfas = t.ifas
       /\ mtu = [ifa \in t.ifas |-> t.mtu]
       /\ network = [lspids |-> t.lspids, seqs |-> t.seqs, lifetimes |-> t.lifetimes,
                    ranges |-> t.ranges]
  /\ lsps = <<>>
  /\ sentLSPDU = {}
  /\ sentPSNP = {}
  /\ sentCSNP = {}
  /\ last = NoOp
  /\ Stopped

ProcessLSP(ifa, lspdu) ==
  /\ lsps' = processLSP(lsps, ifa, lspdu)
  /\ last' = [op |-> "processLSP", ifa |-> ifa, branch |-> lspCase(lsps, lspdu)]
  /\ sentLSPDU' = {} /\ sentPSNP' = {} /\ sentCSNP' = {}
  /\ UNCHANGED <<netIfas, mtu, network, runVars>>

\* The CSNP lists exactly the summaries of the entries of the store, and
\* its range covers them.
DescribesStore(l, csnp) ==
  /\ \A id \in DOMAIN l : RangeContainsLSPID(csnp, id)
  /\ EntryIDs(csnp.LSPEntries) = DOMAIN l
  /\ \A k \in 1..Len(csnp.LSPEntries) :
       csnp.LSPEntries[k] = ToLSPEntry(l[csnp.LSPEntries[k].LSPID].lspdu)

ProcessCSNP(from, csnp) ==
  /\ lsps' = processCSNP(lsps, from, csnp)
  /\ last' = [op |-> "processCSNP", ifa |-> from,
              branch |-> IF DescribesStore(lsps, csnp) THEN "describes" ELSE "-"]
  /\ sentLSPDU' = {} /\ sentPSNP' = {} /\ sentCSNP' = {}
  /\ UNCHANGED <<netIfas, mtu, network, runVars>>

ProcessPSNP(from, psnp) ==
  /\ lsps' = processPSNP(lsps, from, psnp)
  /\ last' = [op |-> "processPSNP", ifa |-> from, branch |-> "-"]
  /\ sentLSPDU' = {} /\ sentPSNP' = {} /\ sentCSNP' = {}
  /\ UNCHANGED <<netIfas, mtu, network, runVars>>

DecrementRemainingLifetimes ==
  /\ lsps' = decrementRemainingLifetimes(lsps)
  /\ last' = [op |-> "decrementRemainingLifetimes", ifa |-> "-", branch |-> "-"]
  /\ sentLSPDU' = {} /\ sentPSNP' = {} /\ sentCSNP' = {}
  /\ UNCHANGED <<netIfas, mtu, network, runVars>>

\* setSRMAllLSPs takes no lock itself; it is run here as one step, as under
\* a lock its caller holds.
SetSRMAllLSPs(ifa) ==
  /\ lsps' = setSRMAllLSPs(lsps, ifa)
  /\ last' = [op |-> "setSRMAllLSPs", ifa |-> ifa, branch |-> "-"]
  /\ sentLSPDU' = {} /\ sentPSNP' = {} /\ sentCSNP' = {}
  /\ UNCHANGED <<netIfas, mtu, network, runVars>>

SendLSPDUs ==
  /\ sentLSPDU' = sendLSPDUs(lsps)
  /\ last' = [op |-> "sendLSPDUs", ifa |-> "-", branch |-> "-"]
  /\ sentPSNP' = {} /\ sentCSNP' = {}
  /\ UNCHANGED <<netIfas, mtu, network, lsps, runVars>>

SendPSNPss ==
  /\ \E orders \in [netIfas -> Orders(DOMAIN lsps)] :
       sentPSNP' = sendPSNPss(lsps, orders)
  /\ lsps' = clearAllSSNFlagsOfStore(lsps)
  /\ last' = [op |-> "sendPSNPss", ifa |-> "-",
              branch |-> IF \E id \in DOMAIN lsps : \E ifa \in lsps[id].ssnFlags : Passive(ifa)
                         THEN "passive" ELSE "-"]
  /\ sentLSPDU' = {} /\ sentCSNP' = {}
  /\ UNCHANGED <<netIfas, mtu, network, runVars>>

\* Each interface takes its own snapshot of the store (getLSPEntries locks
\* the store for one interface at a time); the deployments have one
\* interface with an up neighbor, so one tick takes one snapshot.
SendCSNPss ==
  /\ \E orders \in [netIfas -> Orders(DOMAIN lsps)] :
       sentCSNP' = sendCSNPss(lsps, orders)
  /\ last' = [op |-> "sendCSNPss", ifa |-> "-", branch |-> "-"]
  /\ sentLSPDU' = {} /\ sentPSNP' = {}
  /\ UNCHANGED <<netIfas, mtu, network, lsps, runVars>>

Next ==
  \/ \E ifa \in netIfas, lspdu \in RxLSPDUs : ProcessLSP(ifa, lspdu)
  \/ \E from \in netIfas, csnp \in RxCSNPs : ProcessCSNP(from, csnp)
  \/ \E from \in netIfas, psnp \in RxPSNPs : ProcessPSNP(from, psnp)
  \/ \E ifa \in netIfas : SetSRMAllLSPs(ifa)
  \/ DecrementRemainingLifetimes
  \/ SendLSPDUs
  \/ SendPSNPss
  \/ SendCSNPss

Spec == Init /\ [][Next]_vars

\* ------------------------------------------------------- start and stop
\* The goroutines of the store at the grain of the lock: the launch of the
\* routines, their select between the ticker and l.done, the critical
\* section of each tick and of each receive handler, and stop.  The content
\* of the store is left out here.
RunInit ==
  /\ netIfas = {"A"}
  /\ mtu = [ifa \in {"A"} |-> MinMTU]
  /\ network = [lspids |-> {}, seqs |-> {}, lifetimes |-> {}, ranges |-> {}]
  /\ lsps = <<>>
  /\ sentLSPDU = {}
  /\ sentPSNP = {}
  /\ sentCSNP = {}
  /\ last = NoOp
  /\ Stopped

\* start: l.wg.Add(1); go l.<routine>(ticker), for the next routine.
Launch(k) ==
  /\ pc["caller"] = "new"
  /\ pc[RoutineOrder[k]] = "idle"
  /\ \A j \in 1..(k - 1) : pc[RoutineOrder[j]] # "idle"
  /\ wg' = wg + 1
  /\ pc' = [pc EXCEPT ![RoutineOrder[k]] = "select",
                      !["caller"] = IF k = Len(RoutineOrder) THEN "started" ELSE "new"]
  /\ UNCHANGED <<done, lspsMu, storeVars>>

\* The select of a routine takes the ticker: the routine calls its
\* operation, which asks for the lock.
Tick(r) ==
  /\ pc[r] = "select"
  /\ pc' = [pc EXCEPT ![r] = "lock"]
  /\ UNCHANGED <<done, wg, lspsMu, storeVars>>

\* A routine that leaves without wg.Done().
ExitWithoutDone(r) ==
  /\ pc[r] = "select"
  /\ done
  /\ pc' = [pc EXCEPT ![r] = "exited"]
  /\ UNCHANGED <<done, wg, lspsMu, storeVars>>

\* The select of a routine takes the closed l.done: return, and the
\* deferred l.wg.Done().
Exit(r) ==
  /\ pc[r] = "select"
  /\ done
  /\ pc' = [pc EXCEPT ![r] = "exited"]
  /\ wg' = wg - 1
  /\ UNCHANGED <<done, lspsMu, storeVars>>

\* A PDU arrives: processLSP, processCSNP or processPSNP asks for the lock.
Receive ==
  /\ pc["receive"] = "idle"
  /\ pc' = [pc EXCEPT !["receive"] = "lock"]
  /\ UNCHANGED <<done, wg, lspsMu, storeVars>>

\* l.lspsMu.Lock(), or RLock() in sendLSPDUs.
Lock(g) ==
  /\ pc[g] = "lock"
  /\ lspsMu.writer = NoGoroutine
  /\ IF g \in Readers
     THEN lspsMu' = [lspsMu EXCEPT !.readers = @ \cup {g}]
     ELSE lspsMu.readers = {} /\ lspsMu' = [lspsMu EXCEPT !.writer = g]
  /\ pc' = [pc EXCEPT ![g] = "locked"]
  /\ UNCHANGED <<done, wg, storeVars>>

\* The deferred Unlock() or RUnlock(): the operation returns, a routine
\* to its select.
Unlock(g) ==
  /\ pc[g] = "locked"
  /\ lspsMu' = IF g \in Readers
               THEN [lspsMu EXCEPT !.readers = @ \ {g}]
               ELSE [lspsMu EXCEPT !.writer = NoGoroutine]
  /\ pc' = [pc EXCEPT ![g] = IF g \in Routines THEN "select" ELSE "idle"]
  /\ UNCHANGED <<done, wg, storeVars>>

\* setSRMAllLSPs starts its loop over l.lsps; it takes no lock.
SetSRMAllLSPsBegin ==
  /\ pc["setSRMAllLSPs"] = "idle"
  /\ pc' = [pc EXCEPT !["setSRMAllLSPs"] = "mutating"]
  /\ UNCHANGED <<done, wg, lspsMu, storeVars>>

SetSRMAllLSPsEnd ==
  /\ pc["setSRMAllLSPs"] = "mutating"
  /\ pc' = [pc EXCEPT !["setSRMAllLSPs"] = "idle"]
  /\ UNCHANGED <<done, wg, lspsMu, storeVars>>

\* stop: close(l.done), then l.wg.Wait().
Stop ==
  /\ pc["caller"] = "started"
  /\ done' = TRUE
  /\ pc' = [pc EXCEPT !["caller"] = "waiting"]
  /\ UNCHANGED <<wg, lspsMu, storeVars>>

\* l.wg.Wait() returns.
StopReturn ==
  /\ pc["caller"] = "waiting"
  /\ wg = 0
  /\ pc' = [pc EXCEPT !["caller"] = "stopped"]
  /\ UNCHANGED <<done, wg, lspsMu, storeVars>>

RunNext ==
  \/ \E k \in 1..Len(RoutineOrder) : Launch(k)
  \/ \E r \in Routines : Tick(r)
  \/ \E r \in Routines : Exit(r)
  \/ Receive
  \/ \E g \in Lockers : Lock(g)
  \/ \E g \in Lockers : Unlock(g)
  \/ SetSRMAllLSPsBegin
  \/ SetSRMAllLSPsEnd
  \/ Stop
  \/ StopReturn

\* The scheduler runs every goroutine that can take a step; a select with
\* the closed l.done among its ready cases takes it sooner or later; the
\* lock is granted to every waiter sooner or later.  Nothing makes a
\* ticker fire, a PDU arrive, or stop be called.
RunFairness ==
  /\ \A r \in Routines : SF_vars(Exit(r))
  /\ \A g \in Lockers : SF_vars(Lock(g)) /\ WF_vars(Unlock(g))
  /\ WF_vars(StopReturn)

RunSpec == RunInit /\ [][RunNext]_vars /\ RunFairness

\* ------------------------------------------------------------- packing
\* The transmit ticks of the SNPs on one interface, for stores of up to
\* MaxPackEntries requested entries (a CSNP from the neighbor on "A" listed
\* them) and MTUs from MinMTU up.
PackInit ==
  /\ \E n \in 0..MaxPackEntries, extra \in 0..MaxMTUExtra :
       /\ mtu = [ifa \in {"A"} |-> MinMTU + extra]
       /\ network = [lspids |-> 1..n, seqs |-> {1}, lifetimes |-> {MaxLifetime},
                    ranges |-> {<<FirstLSPID, LastLSPID>>}]
       /\ lsps = processCSNP(<<>>, "A",
                    [StartLSPID |-> FirstLSPID, EndLSPID |-> LastLSPID,
                     LSPEntries |-> [k \in 1..n |-> LSPEntry(k, 1, MaxLifetime)]])
  /\ netIfas = {"A"}
  /\ sentLSPDU = {}
  /\ sentPSNP = {}
  /\ sentCSNP = {}
  /\ last = NoOp
  /\ Stopped

PackNext ==
  \/ SendPSNPss
  \/ SendCSNPss

PackSpec == PackInit /\ [][PackNext]_vars

\* ------------------------------------------------------------------ claims

SeqOf(l, id) == l[id].lspdu.SequenceNumber

LifetimeOf(l, id) == l[id].lspdu.RemainingLifetime

Max(a, b) == IF a >= b THEN a ELSE b

\* C1: processLSP(ifa, p) with p's LSPID absent from the store, or p's
\* sequence number strictly greater than the stored one, leaves for p's
\* LSPID a fresh entry built from p: SRM set exactly on the interfaces of
\* the interface manager other than ifa (so clear on ifa), SSN set on ifa
\* and on no other interface.
C1_NewerInstalledAndFlooded ==
  \A ifa \in netIfas, p \in RxLSPDUs :
    (p.LSPID \notin DOMAIN lsps \/ p.SequenceNumber > SeqOf(lsps, p.LSPID))
      => LET after == processLSP(lsps, ifa, p)
         IN  /\ p.LSPID \in DOMAIN after
             /\ after[p.LSPID].lspdu = p
             /\ after[p.LSPID].srmFlags = netIfas \ {ifa}
             /\ after[p.LSPID].ssnFlags = {ifa}

\* A strictly newer LSPDU was processed on an interface of a server with
\* three interfaces: the entry floods on the two others.
C1_Witness ==
  /\ last.op = "processLSP" /\ last.branch = "newer"
  /\ Cardinality(netIfas) = 3
  /\ \E id \in DOMAIN lsps :
       /\ SeqOf(lsps, id) = MaxSeq
       /\ lsps[id].srmFlags = netIfas \ {last.ifa}
       /\ lsps[id].ssnFlags = {last.ifa}

\* C2: processLSP(ifa, p) with p's sequence number strictly less than the
\* stored one sets SRM on ifa, clears SSN on ifa and leaves the stored
\* LSPDU (sequence number, lifetime, checksum) as it was.
C2_OlderSetsSRMClearsSSN ==
  \A ifa \in netIfas, p \in RxLSPDUs :
    (p.LSPID \in DOMAIN lsps /\ p.SequenceNumber < SeqOf(lsps, p.LSPID))
      => LET after == processLSP(lsps, ifa, p)
         IN  /\ DOMAIN after = DOMAIN lsps
             /\ ifa \in after[p.LSPID].srmFlags
             /\ ifa \notin after[p.LSPID].ssnFlags
             /\ after[p.LSPID].lspdu = lsps[p.LSPID].lspdu

\* An older LSPDU was processed: the entry keeps the higher sequence number
\* and is flagged for flooding back on the receiving interface.
C2_Witness ==
  /\ last.op = "processLSP" /\ last.branch = "older"
  /\ \E id \in DOMAIN lsps :
       /\ SeqOf(lsps, id) > 1
       /\ last.ifa \in lsps[id].srmFlags
       /\ last.ifa \notin lsps[id].ssnFlags

\* C3: processLSP(ifa, p) with p's sequence number equal to the stored one
\* clears SRM on ifa and sets SSN on ifa, does not replace the stored LSPDU,
\* and changes no SRM or SSN flag of another interface (and no other entry).
C3_SameAcknowledgesOnly ==
  \A ifa \in netIfas, p \in RxLSPDUs :
    (p.LSPID \in DOMAIN lsps /\ p.SequenceNumber = SeqOf(lsps, p.LSPID))
      => LET after == processLSP(lsps, ifa, p)
             id == p.LSPID
         IN  /\ DOMAIN after = DOMAIN lsps
             /\ ifa \notin after[id].srmFlags
             /\ ifa \in after[id].ssnFlags
             /\ after[id].lspdu = lsps[id].lspdu
             /\ after[id].srmFlags \ {ifa} = lsps[id].srmFlags \ {ifa}
             /\ after[id].ssnFlags \ {ifa} = lsps[id].ssnFlags \ {ifa}
             /\ \A other \in DOMAIN lsps \ {id} : after[other] = lsps[other]

\* An LSPDU of the stored sequence number was processed on one of three
\* interfaces and no other interface carries SRM: nothing was reflooded.
C3_Witness ==
  /\ last.op = "processLSP" /\ last.branch = "same"
  /\ Cardinality(netIfas) = 3
  /\ \E id \in DOMAIN lsps :
       /\ lsps[id].srmFlags = {}
       /\ last.ifa \in lsps[id].ssnFlags

\* C4: no transmit tick calls sendLSPDU or sendPSNP on a passive interface,
\* whatever SRM and SSN flags the entries carry for it.
C4_PassiveNeverSentTo ==
  /\ \A s \in sentLSPDU : ~Passive(s.ifa)
  /\ \A s \in sentPSNP : ~Passive(s.ifa)

\* An LSPDU transmit tick ran while an entry had SRM set on the passive
\* interface and on another one, and LSPDUs were sent.
C4_Witness ==
  /\ last.op = "sendLSPDUs"
  /\ sentLSPDU # {}
  /\ \E id \in DOMAIN lsps : \E ifa \in lsps[id].srmFlags : Passive(ifa)

\* C5 as claimed: every entry of the store has a remaining lifetime of at
\* least 1 in every state (every action is one critical section, so every
\* state is outside the aging critical section).
C5_LifetimeAtLeastOne ==
  \A id \in DOMAIN lsps : LifetimeOf(lsps, id) >= 1

\* C5 as amended: after every aging tick every entry has a remaining
\* lifetime of at least 1; an entry with remaining lifetime 0 was installed
\* by processLSP or created by processCSNP in this step from a PDU carrying
\* lifetime 0, or had lifetime 0 before the step.
C5_LifetimeAtLeastOneAfterAging ==
  [][ /\ last'.op = "decrementRemainingLifetimes"
           => \A id \in DOMAIN lsps' : LifetimeOf(lsps', id) >= 1
      /\ \A id \in DOMAIN lsps' :
           LifetimeOf(lsps', id) < 1
             => \/ id \in DOMAIN lsps /\ lsps[id].lspdu = lsps'[id].lspdu
                \/ /\ last'.op \in {"processLSP", "processCSNP"}
                   /\ id \notin DOMAIN lsps \/ lsps[id].lspdu # lsps'[id].lspdu
    ]_vars

\* An aging tick ran and an entry survived it with lifetime 1.
C5_Witness ==
  /\ last.op = "decrementRemainingLifetimes"
  /\ \E id \in DOMAIN lsps : LifetimeOf(lsps, id) = 1

\* C6: one aging tick removes every entry whose remaining lifetime is <= 1
\* and decrements the remaining lifetime of every other entry by exactly 1,
\* leaving its sequence number, checksum and SRM/SSN flags alone; the result
\* is never below 0 and never wraps around; no entry is added.
C6_AgingTick ==
  [][ last'.op = "decrementRemainingLifetimes"
        => /\ DOMAIN lsps' \subseteq DOMAIN lsps
           /\ \A id \in DOMAIN lsps :
                IF LifetimeOf(lsps, id) <= 1
                THEN id \notin DOMAIN lsps'
                ELSE /\ id \in DOMAIN lsps'
                     /\ LifetimeOf(lsps', id) = LifetimeOf(lsps, id) - 1
                     /\ LifetimeOf(lsps', id) >= 0
                     /\ LifetimeOf(lsps', id) < LifetimeOf(lsps, id)
                     /\ lsps'[id] = [lsps[id] EXCEPT !.lspdu.RemainingLifetime =
                                       lsps'[id].lspdu.RemainingLifetime]
    ]_vars

\* An aging tick ran in the deployment with two LSPs: one entry was left,
\* decremented to MaxLifetime - 1, with its flags.
C6_Witness ==
  /\ last.op = "decrementRemainingLifetimes"
  /\ Cardinality(network.lspids) = 2
  /\ Cardinality(DOMAIN lsps) = 1
  /\ \E id \in DOMAIN lsps :
       /\ LifetimeOf(lsps, id) = 1
       /\ lsps[id].ssnFlags # {}

\* C7: the sequence number stored for an LSPID never decreases from one
\* state to the next while the entry stays in the store; an entry leaves
\* the store only in an aging tick; and processLSP(ifa, p) leaves the
\* sequence number max(previous, p's), p's when there was no entry.
C7_SequenceNumberMonotone ==
  /\ [][ /\ \A id \in DOMAIN lsps \cap DOMAIN lsps' :
              SeqOf(lsps', id) >= SeqOf(lsps, id)
         /\ \A id \in DOMAIN lsps \ DOMAIN lsps' :
              last'.op = "decrementRemainingLifetimes"
       ]_vars
  /\ [](\A ifa \in netIfas, p \in RxLSPDUs :
          LET after == processLSP(lsps, ifa, p)
          IN  /\ p.LSPID \in DOMAIN after
              /\ SeqOf(after, p.LSPID) =
                   IF p.LSPID \in DOMAIN lsps
                   THEN Max(SeqOf(lsps, p.LSPID), p.SequenceNumber)
                   ELSE p.SequenceNumber)

\* An older LSPDU was processed for an entry at the highest sequence
\* number, which it kept.
C7_Witness ==
  /\ last.op = "processLSP" /\ last.branch = "older"
  /\ \E id \in DOMAIN lsps : SeqOf(lsps, id) = MaxSeq

\* LSPIDs a PSNP lists.
Listed(snp) == { snp.LSPEntries[k].LSPID : k \in 1..Len(snp.LSPEntries) }

\* C8: processPSNP(ifa, psnp) clears SRM on ifa for every listed LSPID in
\* the store and changes nothing else: no entry is created or deleted, no
\* SSN flag, no SRM flag of another interface or of an unlisted entry, and
\* no stored LSPDU changes.
C8_PSNPClearsSRMOnly ==
  \A from \in netIfas, psnp \in RxPSNPs :
    LET after == processPSNP(lsps, from, psnp)
    IN  /\ DOMAIN after = DOMAIN lsps
        /\ \A id \in DOMAIN lsps :
             /\ after[id].lspdu = lsps[id].lspdu
             /\ after[id].ssnFlags = lsps[id].ssnFlags
             /\ after[id].srmFlags =
                  IF id \in Listed(psnp)
                  THEN lsps[id].srmFlags \ {from}
                  ELSE lsps[id].srmFlags

\* A PSNP was processed in the deployment with two LSPs: one entry is
\* acknowledged on the interface, the other still has SRM set on it.
C8_Witness ==
  /\ last.op = "processPSNP"
  /\ \E id1 \in DOMAIN lsps, id2 \in DOMAIN lsps :
       /\ last.ifa \notin lsps[id1].srmFlags
       /\ last.ifa \in lsps[id2].srmFlags
       /\ lsps[id1].ssnFlags # {}

\* The empty entry processCSNP is to create for LSPEntry e received on from:
\* no payload, e's LSPID, sequence number, remaining lifetime and checksum,
\* SSN set on from only, SRM set nowhere.
RequestedEmptyEntry(entry, e, from) ==
  /\ ~entry.lspdu.HasTLVs
  /\ ToLSPEntry(entry.lspdu) = e
  /\ entry.ssnFlags = {from}
  /\ entry.srmFlags = {}

\* C9: for every LSPEntry e of a CSNP received on ifa whose LSPID is not in
\* the store, processCSNP leaves for that LSPID an empty entry (no payload)
\* that records e's LSPID, sequence number, remaining lifetime and
\* checksum, with SSN set on ifa only and SRM set on no interface; the
\* per-entry step alone does the same and touches no other entry.
C9_UnknownEntryRequested ==
  \A from \in netIfas :
    /\ \A csnp \in RxCSNPs :
         LET after == processCSNP(lsps, from, csnp)
         IN  \A k \in 1..Len(csnp.LSPEntries) :
               LET e == csnp.LSPEntries[k]
               IN  e.LSPID \notin DOMAIN lsps
                     => /\ e.LSPID \in DOMAIN after
                        /\ RequestedEmptyEntry(after[e.LSPID], e, from)
    /\ \A id \in network.lspids \ DOMAIN lsps,
          seq \in network.seqs, lt \in network.lifetimes :
         LET e == LSPEntry(id, seq, lt)
             step == processCSNPLSPEntry(lsps, e, from)
         IN  /\ DOMAIN step = DOMAIN lsps \cup {id}
             /\ RequestedEmptyEntry(step[id], e, from)
             /\ \A other \in DOMAIN lsps : step[other] = lsps[other]

\* A CSNP was processed and the store holds an empty entry with SSN set on
\* the receiving interface and no SRM flag.
C9_Witness ==
  /\ last.op = "processCSNP"
  /\ \E id \in DOMAIN lsps :
       /\ ~lsps[id].lspdu.HasTLVs
       /\ lsps[id].ssnFlags = {last.ifa}
       /\ lsps[id].srmFlags = {}

\* How the stored LSPDU ranks against a received LSPEntry: by sequence
\* number, and by remaining lifetime when the sequence numbers are equal.
Rank(lspdu, e) ==
  IF lspdu.SequenceNumber # e.SequenceNumber
  THEN IF lspdu.SequenceNumber > e.SequenceNumber THEN "newer" ELSE "older"
  ELSE IF lspdu.RemainingLifetime = e.RemainingLifetime THEN "same"
       ELSE IF lspdu.RemainingLifetime > e.RemainingLifetime THEN "newer"
            ELSE "older"

\* C10: for every LSPEntry e of a CSNP received on ifa whose LSPID is in the
\* store, exactly one of sameAsInLSPEntry, newerInDatabase, olderInDatabase
\* holds, the one the ranking names, and processCSNP applies its action on
\* ifa: same -> SRM clear; newer in the database -> SSN clear and SRM set;
\* older in the database -> SRM clear and SSN set.  The flags of the other
\* interfaces and the stored LSPDU are unchanged.
C10_KnownEntryCompared ==
  \A from \in netIfas, csnp \in RxCSNPs :
    LET after == processCSNP(lsps, from, csnp)
    IN  \A k \in 1..Len(csnp.LSPEntries) :
          LET e == csnp.LSPEntries[k]
              id == e.LSPID
          IN  id \in DOMAIN lsps
                => LET old == lsps[id]
                       new == after[id]
                       r == Rank(old.lspdu, e)
                   IN  /\ sameAsInLSPEntry(old, e) <=> r = "same"
                       /\ newerInDatabase(old, e) <=> r = "newer"
                       /\ olderInDatabase(old, e) <=> r = "older"
                       /\ new.lspdu = old.lspdu
                       /\ new.srmFlags \ {from} = old.srmFlags \ {from}
                       /\ new.ssnFlags \ {from} = old.ssnFlags \ {from}
                       /\ r = "same"
                            => /\ from \notin new.srmFlags
                               /\ from \in new.ssnFlags <=> from \in old.ssnFlags
                       /\ r = "newer"
                            => from \in new.srmFlags /\ from \notin new.ssnFlags
                       /\ r = "older"
                            => from \notin new.srmFlags /\ from \in new.ssnFlags

\* A CSNP was processed and an entry with payload is flagged for flooding,
\* not for a request, on the receiving interface: the database was newer.
C10_Witness ==
  /\ last.op = "processCSNP"
  /\ \E id \in DOMAIN lsps :
       /\ lsps[id].lspdu.HasTLVs
       /\ last.ifa \in lsps[id].srmFlags
       /\ last.ifa \notin lsps[id].ssnFlags
       /\ SeqOf(lsps, id) = MaxSeq

\* C11: after processCSNP(ifa, csnp), every entry of the store whose LSPID
\* is in the range of the CSNP, that the CSNP does not list and that has a
\* remaining lifetime and a sequence number above zero has SRM set on ifa;
\* the entries outside the range that are not listed keep their flags on
\* ifa (and everything else) unchanged.
C11_GapsFlooded ==
  \A from \in netIfas, csnp \in RxCSNPs :
    LET after == processCSNP(lsps, from, csnp)
    IN  \A id \in DOMAIN lsps :
          ~ContainsLSPEntry(csnp, id)
            => /\ id \in DOMAIN after
               /\ ( /\ csnp.StartLSPID <= id /\ id <= csnp.EndLSPID
                    /\ lsps[id].lspdu.RemainingLifetime > 0
                    /\ lsps[id].lspdu.SequenceNumber > 0 )
                    => from \in after[id].srmFlags
               /\ ~(csnp.StartLSPID <= id /\ id <= csnp.EndLSPID)
                    => after[id] = lsps[id]

\* A CSNP was processed on an interface; one entry with a live LSPDU has
\* SRM set on that interface and on no other and no SSN flag, as a gap in
\* the CSNP leaves it.
C11_Witness ==
  /\ last.op = "processCSNP"
  /\ last.branch = "-"
  /\ \E id \in DOMAIN lsps :
       /\ lsps[id].lspdu.HasTLVs
       /\ lsps[id].lspdu.RemainingLifetime > 0
       /\ last.ifa \in lsps[id].srmFlags
       /\ \E c \in RxCSNPs :
            /\ ~ContainsLSPEntry(c, id) /\ RangeContainsLSPID(c, id)
            /\ processCSNP(lsps, last.ifa, c) = lsps

\* C12: a CSNP whose range covers the whole store and whose entries are
\* exactly the summaries of the entries of the store leaves, on the
\* interface it arrived on, SRM clear for every listed LSPID, creates no
\* entry and sets no SSN flag.
C12_FullCSNPClearsSRM ==
  \A from \in netIfas, csnp \in RxCSNPs :
    DescribesStore(lsps, csnp)
      => LET after == processCSNP(lsps, from, csnp)
         IN  /\ DOMAIN after = DOMAIN lsps
             /\ \A id \in DOMAIN lsps :
                  /\ from \notin after[id].srmFlags
                  /\ after[id].ssnFlags \subseteq lsps[id].ssnFlags
                  /\ after[id].lspdu = lsps[id].lspdu

\* A CSNP that describes the store exactly was processed while the store
\* held two entries, one of them still flagged for a request somewhere.
C12_Witness ==
  /\ last.op = "processCSNP"
  /\ last.branch = "describes"
  /\ Cardinality(DOMAIN lsps) = 2
  /\ \A id \in DOMAIN lsps : last.ifa \notin lsps[id].srmFlags
  /\ \E id \in DOMAIN lsps : lsps[id].ssnFlags # {}

\* C13: processing the same CSNP on the same interface twice leaves the
\* same entries (LSPIDs, sequence numbers, lifetimes, checksums) as
\* processing it once, and the flags are at a fixed point after the first
\* time: a further identical CSNP changes no SRM and no SSN flag.
C13_ProcessCSNPIdempotent ==
  \A from \in netIfas, csnp \in RxCSNPs :
    LET once == processCSNP(lsps, from, csnp)
        twice == processCSNP(once, from, csnp)
    IN  /\ DOMAIN twice = DOMAIN once
        /\ \A id \in DOMAIN once :
             /\ twice[id].lspdu = once[id].lspdu
             /\ twice[id].srmFlags = once[id].srmFlags
             /\ twice[id].ssnFlags = once[id].ssnFlags

\* A CSNP was processed and the store is a fixed point of a CSNP that
\* lists an entry the store holds without payload, requested on the
\* receiving interface: that CSNP created the entry and, repeated, finds
\* it known.
C13_Witness ==
  /\ last.op = "processCSNP"
  /\ \E c \in RxCSNPs :
       /\ processCSNP(lsps, last.ifa, c) = lsps
       /\ \E k \in 1..Len(c.LSPEntries) :
            LET id == c.LSPEntries[k].LSPID
            IN  /\ id \in DOMAIN lsps
                /\ ~lsps[id].lspdu.HasTLVs
                /\ ToLSPEntry(lsps[id].lspdu) = c.LSPEntries[k]
                /\ last.ifa \in lsps[id].ssnFlags

\* The LSPDUs of the last LSPDU transmit tick that went out on ifa.
SentOn(sent, ifa) == { x \in sent : x.ifa = ifa }

\* C14: one LSPDU transmit tick hands the LSPDU of each entry to
\* sendLSPDU on exactly the non-passive interfaces on which the entry has
\* SRM set, and leaves the store as it was: no entry added or removed, no
\* flag changed, SRM still set.
C14_TransmitTick ==
  [][ last'.op = "sendLSPDUs"
        => /\ lsps' = lsps
           /\ \A id \in DOMAIN lsps, ifa \in Ifas :
                [ifa |-> ifa, lspdu |-> lsps[id].lspdu] \in sentLSPDU'
                  <=> (ifa \in lsps[id].srmFlags /\ ~Passive(ifa))
           /\ \A x \in sentLSPDU' :
                \E id \in DOMAIN lsps : x.lspdu = lsps[id].lspdu ]_vars

\* An LSPDU transmit tick sent an entry on one non-passive interface and
\* not on another, where its SRM flag is clear.
C14_Witness ==
  /\ last.op = "sendLSPDUs"
  /\ \E id \in DOMAIN lsps : \E i \in netIfas, j \in netIfas :
       /\ ~Passive(i) /\ ~Passive(j)
       /\ i \in lsps[id].srmFlags /\ j \notin lsps[id].srmFlags
       /\ [ifa |-> i, lspdu |-> lsps[id].lspdu] \in sentLSPDU
       /\ SentOn(sentLSPDU, j) = {}

\* C15: every LSPDU transmit tick sends an entry on a non-passive
\* interface while its SRM flag is set there and does not send it while
\* the flag is clear; the tick leaves the flag set; a PSNP, or a CSNP that
\* lists the entry as the same instance, clears the flag on the interface
\* it arrived on and on no other, so the tick after it sends the entry on
\* the other interfaces only.
C15_RetransmitUntilAcknowledged ==
  /\ [][ /\ last'.op = "sendLSPDUs"
            => \A id \in DOMAIN lsps, ifa \in netIfas :
                 /\ lsps'[id].srmFlags = lsps[id].srmFlags
                 /\ ~Passive(ifa)
                      => ( [ifa |-> ifa, lspdu |-> lsps[id].lspdu] \in sentLSPDU'
                             <=> ifa \in lsps[id].srmFlags )
          /\ last'.op = "processPSNP"
            => \A x \in DOMAIN lsps :
                 /\ x \in DOMAIN lsps'
                 /\ lsps'[x].srmFlags \subseteq lsps[x].srmFlags
                 /\ lsps[x].srmFlags \ lsps'[x].srmFlags \subseteq {last'.ifa} ]_vars
  /\ [](\A from \in netIfas, id \in DOMAIN lsps :
          /\ \A psnp \in RxPSNPs :
               id \in EntryIDs(psnp.LSPEntries)
                 => LET after == processPSNP(lsps, from, psnp)
                    IN  { x.ifa : x \in { y \in sendLSPDUs(after) : y.lspdu.LSPID = id } }
                          = { i \in lsps[id].srmFlags \ {from} : ~Passive(i) }
          /\ \A csnp \in RxCSNPs :
               (\E k \in 1..Len(csnp.LSPEntries) :
                   /\ csnp.LSPEntries[k].LSPID = id
                   /\ sameAsInLSPEntry(lsps[id], csnp.LSPEntries[k]))
                 => LET after == processCSNP(lsps, from, csnp)
                    IN  { x.ifa : x \in { y \in sendLSPDUs(after) : y.lspdu.LSPID = id } }
                          = { i \in lsps[id].srmFlags \ {from} : ~Passive(i) })

\* A PSNP arrived on an interface and left an entry flagged for flooding
\* on another non-passive interface and not on the one it arrived on.
C15_Witness ==
  /\ last.op = "processPSNP"
  /\ ~Passive(last.ifa)
  /\ \E id \in DOMAIN lsps : \E i \in netIfas :
       /\ ~Passive(i) /\ i # last.ifa
       /\ lsps[id].lspdu.HasTLVs
       /\ i \in lsps[id].srmFlags
       /\ last.ifa \notin lsps[id].srmFlags
       /\ [ifa |-> i, lspdu |-> lsps[id].lspdu] \in sendLSPDUs(lsps)

\* The LSPEntries of the PSNPs or CSNPs sent on ifa.
EntriesSentOn(sent, ifa) ==
  UNION { SeqRange(IF "psnp" \in DOMAIN x THEN x.psnp.LSPEntries
                                          ELSE x.csnp.LSPEntries) :
          x \in SentOn(sent, ifa) }

\* No entry is listed twice in what was sent on ifa.
RECURSIVE TotalEntries(_)
TotalEntries(sent) ==
  IF sent = {} THEN 0
  ELSE LET x == CHOOSE y \in sent : TRUE
       IN  Len(IF "psnp" \in DOMAIN x THEN x.psnp.LSPEntries ELSE x.csnp.LSPEntries)
             + TotalEntries(sent \ {x})

\* C16: one PSNP transmit tick sends, on each non-passive interface, PSNPs
\* whose entries together are exactly the summaries of the entries with
\* SSN set on that interface, each once, and no PSNP where none is
\* flagged; after the tick no entry has SSN set on any interface; SRM
\* flags and LSPDUs are unchanged.
C16_PSNPTick ==
  [][ last'.op = "sendPSNPss"
        => /\ \A ifa \in netIfas :
                LET flagged == { id \in DOMAIN lsps : ifa \in lsps[id].ssnFlags }
                IN  IF Passive(ifa)
                    THEN SentOn(sentPSNP', ifa) = {}
                    ELSE /\ EntriesSentOn(sentPSNP', ifa)
                              = { ToLSPEntry(lsps[id].lspdu) : id \in flagged }
                         /\ TotalEntries(SentOn(sentPSNP', ifa)) = Cardinality(flagged)
                         /\ \A x \in SentOn(sentPSNP', ifa) : Len(x.psnp.LSPEntries) > 0
           /\ \A x \in sentPSNP' : x.ifa \in netIfas
           /\ DOMAIN lsps' = DOMAIN lsps
           /\ \A id \in DOMAIN lsps :
                /\ lsps'[id].ssnFlags = {}
                /\ lsps'[id].srmFlags = lsps[id].srmFlags
                /\ lsps'[id].lspdu = lsps[id].lspdu ]_vars

\* A PSNP transmit tick sent one PSNP that lists two entries, and no flag
\* SSN is left.
C16_Witness ==
  /\ last.op = "sendPSNPss"
  /\ \E x \in sentPSNP : Len(x.psnp.LSPEntries) = 2
  /\ \A id \in DOMAIN lsps : lsps[id].ssnFlags = {}

\* C17: one CSNP transmit tick sends nothing on an interface without an up
\* L2 neighbor; on every interface with one it sends CSNPs whose entries
\* together are the summaries of all entries of the store, each once, and
\* exactly one CSNP without entries over the whole range when the store is
\* empty; the tick changes no flag and no entry.
C17_CSNPTick ==
  [][ last'.op = "sendCSNPss"
        => /\ lsps' = lsps
           /\ \A x \in sentCSNP' : x.ifa \in netIfas
           /\ \A ifa \in netIfas :
                IF getNeighborsUp(ifa) < 1
                THEN SentOn(sentCSNP', ifa) = {}
                ELSE IF DOMAIN lsps = {}
                THEN SentOn(sentCSNP', ifa)
                       = { [ifa |-> ifa,
                            csnp |-> [StartLSPID |-> FirstLSPID, EndLSPID |-> LastLSPID,
                                      LSPEntries |-> <<>>]] }
                ELSE /\ EntriesSentOn(sentCSNP', ifa)
                          = { ToLSPEntry(lsps[id].lspdu) : id \in DOMAIN lsps }
                     /\ TotalEntries(SentOn(sentCSNP', ifa)) = Cardinality(DOMAIN lsps) ]_vars

\* A CSNP transmit tick sent the CSNPs of a store with entries on the
\* interface with an up neighbor, and nothing on another interface.
C17_Witness ==
  /\ last.op = "sendCSNPss"
  /\ DOMAIN lsps # {}
  /\ \E i \in netIfas, j \in netIfas :
       /\ getNeighborsUp(i) >= 1 /\ getNeighborsUp(j) < 1
       /\ EntriesSentOn(sentCSNP, i) # {}
       /\ SentOn(sentCSNP, j) = {}

\* The least number of parts of size d that hold n.
Ceil(n, d) == (n + d - 1) \div d

C18_StopWaitsForRoutines ==
  /\ [](pc["caller"] = "stopped"
          => /\ done
             /\ wg = 0
             /\ \A r \in Routines : pc[r] = "exited"
             /\ lspsMu.writer \notin Routines
             /\ lspsMu.readers \cap Routines = {})
  /\ (pc["caller"] = "waiting") ~> (pc["caller"] = "stopped")
  /\ [][pc["caller"] = "stopped"
          => \A r \in Routines : pc'[r] = pc[r]]_vars

\* stop has returned while the receive path holds the lock: the routines
\* are gone, the handlers are not.
C18_Witness ==
  /\ pc["caller"] = "stopped"
  /\ \A r \in Routines : pc[r] = "exited"
  /\ lspsMu.writer = "receive"

\* C19 as claimed: while a goroutine mutates the store or the flags (a
\* writer in its critical section, or setSRMAllLSPs in its loop) no other
\* goroutine is inside the store: no other writer is active and the LSPDU
\* transmit does not iterate under the read lock.
C19_NoConcurrentMutation ==
  \A g \in Goroutines, h \in Goroutines :
    ( /\ g # h
      /\ pc[g] = "mutating" \/ (pc[g] = "locked" /\ g \notin Readers) )
      => pc[h] \notin {"locked", "mutating"}

\* C21 as claimed: when the store holds an entry without payload for an
\* LSPID (processCSNP created it from a summary with sequence number s) and
\* processLSP delivers the LSPDU of that LSPID with sequence number s, the
\* store afterwards holds that LSPDU, with its payload, for the LSPID.
C21_FetchCompletes ==
  \A ifa \in netIfas, p \in RxLSPDUs :
    ( /\ p.LSPID \in DOMAIN lsps
      /\ ~lsps[p.LSPID].lspdu.HasTLVs
      /\ p.SequenceNumber = SeqOf(lsps, p.LSPID) )
      => LET after == processLSP(lsps, ifa, p)
         IN  /\ p.LSPID \in DOMAIN after
             /\ after[p.LSPID].lspdu = p

\* C22 as claimed: every LSPDU an LSPDU transmit tick hands to sendLSPDU
\* has its payload: no entry without payload is sent.
C22_NoEmptyEntrySent ==
  \A x \in sentLSPDU : x.lspdu.HasTLVs

\* C23 as claimed: whenever a PSNP transmit tick clears an SSN flag that
\* was set for an entry on an interface, passive interfaces included, the
\* tick has handed a PSNP that lists the entry to sendPSNP on that
\* interface.
C23_NoSSNClearedUnsent ==
  [][ last'.op = "sendPSNPss"
        => \A id \in DOMAIN lsps :
             \A ifa \in lsps[id].ssnFlags \ lsps'[id].ssnFlags :
               ToLSPEntry(lsps[id].lspdu) \in EntriesSentOn(sentPSNP', ifa) ]_vars

\* C23, amended: whenever a PSNP transmit tick clears an SSN flag that was
\* set for an entry on a non-passive interface of the interface manager,
\* the tick has handed a PSNP that lists the entry to sendPSNP on that
\* interface; an SSN flag on any other interface (a passive one) is cleared
\* as well, and nothing is sent there.
C23_SSNClearedSentUnlessPassive ==
  [][ last'.op = "sendPSNPss"
        => \A id \in DOMAIN lsps :
             \A ifa \in lsps[id].ssnFlags \ lsps'[id].ssnFlags :
               IF ifa \in netIfas /\ ~Passive(ifa)
               THEN ToLSPEntry(lsps[id].lspdu) \in EntriesSentOn(sentPSNP', ifa)
               ELSE SentOn(sentPSNP', ifa) = {} ]_vars

\* A PSNP transmit tick found an SSN flag on a passive interface, sent a
\* PSNP on another interface, and left no SSN flag.
C23_Witness ==
  /\ last.op = "sendPSNPss"
  /\ last.branch = "passive"
  /\ \E x \in sentPSNP : ~Passive(x.ifa) /\ Len(x.psnp.LSPEntries) > 0
  /\ \A x \in sentPSNP : ~Passive(x.ifa)
  /\ \A id \in DOMAIN lsps : lsps[id].ssnFlags = {}

====
